---- MODULE Spec2Model ----
(***************************************************************************)
(* A model of package plt's axis.go (eaburns/plot): the Axis value, its    *)
(* data-to-drawing transform, the space it reserves (height, width), the   *)
(* drawing passes (drawHoriz, drawVert) and the tick generators.           *)
(*                                                                         *)
(* A float64 is modelled as an IEEE-754 binary64 value: a sign, an odd     *)
(* mantissa of at most 53 binary digits and an exponent (or a signed zero, *)
(* an infinity, NaN).  Every +, -, * and / rounds its exact result to the  *)
(* nearest binary64 value, ties to even, with overflow to an infinity and  *)
(* gradual underflow; each operation is rounded on its own (no fused       *)
(* multiply-add).  A string is a sequence of one-character strings.        *)
(***************************************************************************)
EXTENDS Integers, Sequences, FiniteSets, TLC

VARIABLES
    phase,     \* "new" before MakeAxis, "ready" after it, "panicked" once a constructor panicked
    axis,      \* the Axis value
    op,        \* the last operation performed on the axis
    arg,       \* the arguments of the last operation
    ret,       \* the float64 the last call returned
    retMarks,  \* the []Tick the last call returned
    canvas     \* the da.Text and da.Line calls the last drawing pass issued, in order

vars == <<phase, axis, op, arg, ret, retMarks, canvas>>

(***************************************************************************)
(* Bounds of the model.                                                    *)
(***************************************************************************)
\* Data values (Axis.Min, Axis.Max, arguments of X, Y and Marks) range over
\* the integers -MaxData .. MaxData.
MaxData == 1
\* Constant tick sequences have at most MaxTicks ticks.
MaxTicks == 2

(***************************************************************************)
(* Natural numbers of any size: the sequence of the digits in base Base,   *)
(* least significant first, without a leading zero digit (<<>> is 0).      *)
(* The operations split the digits in halves, to keep the recursion short. *)
(***************************************************************************)
Base == 2 ^ 15

Max2(i, j) == IF i > j THEN i ELSE j

Min2(i, j) == IF i < j THEN i ELSE j

\* The largest and the smallest element of a non-empty set of integers.
MaxOf(S) == CHOOSE i \in S : \A j \in S : j <= i

MinOf(S) == CHOOSE i \in S : \A j \in S : i <= j

\* Digit i of a (0 beyond its length).
BDig(a, i) == IF i <= Len(a) THEN a[i] ELSE 0

\* a without its leading zero digits
BTrim(a) ==
    IF a = <<>> \/ a[Len(a)] # 0 THEN a
    ELSE LET nz == {i \in 1..Len(a) : a[i] # 0}
         IN  IF nz = {} THEN <<>> ELSE SubSeq(a, 1, MaxOf(nz))

RECURSIVE BFromInt(_)
BFromInt(n) == IF n = 0 THEN <<>> ELSE <<n % Base>> \o BFromInt(n \div Base)

\* The value of a number of at most two digits.
BToInt(a) ==
    IF a = <<>> THEN 0 ELSE IF Len(a) = 1 THEN a[1] ELSE a[1] + Base * a[2]

\* k digits 0
BZeros(k) == IF k = 0 THEN <<>> ELSE [i \in 1..k |-> 0]

\* The digits r[1], and above them the carry r[2] if it is not 0.
BCarry(r) == IF r[2] = 0 THEN r[1] ELSE Append(r[1], r[2])

\* Digits lo..hi of a + b + c and the carry out of them.
RECURSIVE BAddR(_, _, _, _, _)
BAddR(a, b, lo, hi, c) ==
    IF lo > hi THEN <<<<>>, c>>
    ELSE IF lo = hi
    THEN LET x == BDig(a, lo) + BDig(b, lo) + c IN <<<<x % Base>>, x \div Base>>
    ELSE LET mid == (lo + hi) \div 2
             l == BAddR(a, b, lo, mid, c)
             h == BAddR(a, b, mid + 1, hi, l[2])
         IN  <<l[1] \o h[1], h[2]>>

\* a + b
BAdd(a, b) ==
    IF a = <<>> THEN b
    ELSE IF b = <<>> THEN a
    ELSE BCarry(BAddR(a, b, 1, Max2(Len(a), Len(b)), 0))

\* Digits lo..hi of a - b - c and the borrow out of them.
RECURSIVE BSubR(_, _, _, _, _)
BSubR(a, b, lo, hi, c) ==
    IF lo > hi THEN <<<<>>, c>>
    ELSE IF lo = hi
    THEN LET x == a[lo] - BDig(b, lo) - c
         IN  <<<<(x + Base) % Base>>, IF x < 0 THEN 1 ELSE 0>>
    ELSE LET mid == (lo + hi) \div 2
             l == BSubR(a, b, lo, mid, c)
             h == BSubR(a, b, mid + 1, hi, l[2])
         IN  <<l[1] \o h[1], h[2]>>

\* a - b, for a >= b
BSub(a, b) == IF b = <<>> THEN a ELSE BTrim(BSubR(a, b, 1, Len(a), 0)[1])

\* -1, 0 or 1 as a < b, a = b or a > b
BCmp(a, b) ==
    IF Len(a) < Len(b) THEN 0 - 1
    ELSE IF Len(a) > Len(b) THEN 1
    ELSE LET df == {i \in 1..Len(a) : a[i] # b[i]}
         IN  IF df = {} THEN 0
             ELSE IF a[MaxOf(df)] < b[MaxOf(df)] THEN 0 - 1 ELSE 1

\* Digits lo..hi of a * k + c and the carry out of them.
RECURSIVE BMulR(_, _, _, _, _)
BMulR(a, k, lo, hi, c) ==
    IF lo = hi
    THEN LET x == a[lo] * k + c IN <<<<x % Base>>, x \div Base>>
    ELSE LET mid == (lo + hi) \div 2
             l == BMulR(a, k, lo, mid, c)
             h == BMulR(a, k, mid + 1, hi, l[2])
         IN  <<l[1] \o h[1], h[2]>>

\* a * k, for a digit k
BMulSmall(a, k) ==
    IF k = 0 \/ a = <<>> THEN <<>>
    ELSE IF k = 1 THEN a
    ELSE BCarry(BMulR(a, k, 1, Len(a), 0))

\* a[lo..hi] * b, for b > 0
RECURSIVE BMulAt(_, _, _, _)
BMulAt(a, b, lo, hi) ==
    IF lo = hi THEN BMulSmall(b, a[lo])
    ELSE LET mid == (lo + hi) \div 2
             l == BMulAt(a, b, lo, mid)
             h == BMulAt(a, b, mid + 1, hi)
         IN  IF h = <<>> THEN l ELSE BAdd(l, BZeros(mid - lo + 1) \o h)

\* a * b
BMul(a, b) == IF a = <<>> \/ b = <<>> THEN <<>> ELSE BMulAt(a, b, 1, Len(a))

\* The digits of s in the opposite order.
BReverse(s) == [i \in 1..Len(s) |-> s[Len(s) + 1 - i]]

\* The quotient, least significant digit first and without leading zeros,
\* and the remainder, from the digits qr[1] of the quotient (most
\* significant first) and the remainder qr[2].
BQuot(qr) == <<BTrim(BReverse(qr[1])), qr[2]>>

\* Digits hi..lo (most significant first) of the quotient of a by the digit
\* k > 0, from digit hi down with the remainder r so far, and the remainder
\* after them.
RECURSIVE BDivSmallR(_, _, _, _, _)
BDivSmallR(a, k, lo, hi, r) ==
    IF lo = hi
    THEN LET x == r * Base + a[lo] IN <<<<x \div k>>, x % k>>
    ELSE LET mid == (lo + hi) \div 2
             h == BDivSmallR(a, k, mid + 1, hi, r)
             l == BDivSmallR(a, k, lo, mid, h[2])
         IN  <<h[1] \o l[1], l[2]>>

\* <<a div k, a mod k>>, for a digit k > 0
BDivSmall(a, k) ==
    IF a = <<>> THEN <<<<>>, 0>> ELSE BQuot(BDivSmallR(a, k, 1, Len(a), 0))

\* a * 2^n
BShl(a, n) ==
    IF a = <<>> \/ n = 0 THEN a
    ELSE BZeros(n \div 15) \o BMulSmall(a, 2 ^ (n % 15))

\* a div 2^n
BShr(a, n) ==
    IF n = 0 THEN a
    ELSE IF n \div 15 >= Len(a) THEN <<>>
    ELSE IF n % 15 = 0 THEN SubSeq(a, n \div 15 + 1, Len(a))
    ELSE BDivSmall(SubSeq(a, n \div 15 + 1, Len(a)), 2 ^ (n % 15))[1]

RECURSIVE IntBitLen(_)
IntBitLen(n) == IF n = 0 THEN 0 ELSE 1 + IntBitLen(n \div 2)

\* The number of binary digits of a.
BBitLen(a) == IF a = <<>> THEN 0 ELSE 15 * (Len(a) - 1) + IntBitLen(a[Len(a)])

RECURSIVE IntLowZeros(_)
IntLowZeros(n) == IF n % 2 = 1 THEN 0 ELSE 1 + IntLowZeros(n \div 2)

\* The number of 0 binary digits at the low end of a > 0.
BLowZeros(a) ==
    LET i == MinOf({j \in 1..Len(a) : a[j] # 0})
    IN  15 * (i - 1) + IntLowZeros(a[i])

\* Binary digit i of a is 1 (digit 0 is the lowest).
BTestBit(a, i) ==
    IF i \div 15 >= Len(a) THEN FALSE
    ELSE (a[i \div 15 + 1] \div (2 ^ (i % 15))) % 2 = 1

\* Some binary digit of a below digit i is 1.
BAnyBelow(a, i) ==
    \/ \E j \in 1..Min2(i \div 15, Len(a)) : a[j] # 0
    \/ (i \div 15 < Len(a) /\ a[i \div 15 + 1] % (2 ^ (i % 15)) # 0)

BOdd(a) == a # <<>> /\ a[1] % 2 = 1

\* The largest digit q with q * b <= r, for lo <= q < hi.
RECURSIVE BDigitSearch(_, _, _, _)
BDigitSearch(r, b, lo, hi) ==
    IF hi - lo = 1 THEN lo
    ELSE IF BCmp(BMulSmall(b, (lo + hi) \div 2), r) <= 0
    THEN BDigitSearch(r, b, (lo + hi) \div 2, hi)
    ELSE BDigitSearch(r, b, lo, (lo + hi) \div 2)

\* r div b, for r < b * Base
BDigit(r, b) ==
    IF BCmp(r, b) < 0 THEN 0
    ELSE IF Len(r) <= 2 THEN BToInt(r) \div BToInt(b)
    ELSE BDigitSearch(r, b, 1, Base)

\* The digit q of a quotient and the remainder x - q * b.
BDivStep(x, b, q) == <<<<q>>, BSub(x, BMulSmall(b, q))>>

\* <<x div b, x mod b>>, for x < b * Base
BDivDigit(x, b) == BDivStep(x, b, BDigit(x, b))

\* Digits hi..lo (most significant first) of the quotient of a by b > 0, from
\* digit hi down with the remainder r so far, and the remainder after them.
RECURSIVE BDivModR(_, _, _, _, _)
BDivModR(a, b, lo, hi, r) ==
    IF lo = hi THEN BDivDigit(BTrim(<<a[lo]>> \o r), b)
    ELSE LET mid == (lo + hi) \div 2
             h == BDivModR(a, b, mid + 1, hi, r)
             l == BDivModR(a, b, lo, mid, h[2])
         IN  <<h[1] \o l[1], l[2]>>

\* <<a div b, a mod b>>, for b > 0
BDivMod(a, b) ==
    IF a = <<>> THEN <<<<>>, <<>>>>
    ELSE IF b = <<1>> THEN <<a, <<>>>>
    ELSE BQuot(BDivModR(a, b, 1, Len(a), <<>>))

\* 10^n
RECURSIVE BPow10(_)
BPow10(n) ==
    IF n = 0 THEN <<1>>
    ELSE IF n % 2 = 1 THEN BMulSmall(BPow10(n - 1), 10)
    ELSE LET h == BPow10(n \div 2) IN BMul(h, h)

(***************************************************************************)
(* float64 arithmetic: every operation returns the binary64 value nearest  *)
(* to the exact result (ties to even), an infinity on overflow.            *)
(***************************************************************************)
\* The finite float64 (-1)^s * m * 2^e, m odd.
Finite(s, m, e) == [k |-> "fin", s |-> s, m |-> m, e |-> e]

\* 0 and -0
SignedZero(s) == [k |-> "fin", s |-> s, m |-> <<>>, e |-> 0]

Inf(s) == [k |-> "inf", s |-> s, m |-> <<>>, e |-> 0]

\* math.Inf(1)
PosInf == Inf(0)

\* math.Inf(-1)
NegInf == Inf(1)

NaN == [k |-> "nan", s |-> 0, m |-> <<>>, e |-> 0]

Zero == SignedZero(0)

IsNaN(x) == x.k = "nan"

IsInf(x) == x.k = "inf"

IsFinite(x) == x.k = "fin"

IsZero(x) == x.k = "fin" /\ x.m = <<>>

\* (-1)^s * m * 2^e with the z low 0 binary digits of m moved to the exponent.
Odd(s, m, e, z) == Finite(s, BShr(m, z), e + z)

\* The float64 (-1)^s * m * 2^e for a value that needs no rounding.
Exact(s, m, e) ==
    IF m = <<>> THEN SignedZero(s)
    ELSE IF e + BBitLen(m) > 1024 THEN Inf(s)
    ELSE Odd(s, m, e, BLowZeros(m))

\* m without its sh low binary digits, t, rounded to the nearest: up when the
\* digits cut are above the half, or are the half and t is odd.
RoundOff(m, sh, t) ==
    IF BTestBit(m, sh - 1) /\ (BAnyBelow(m, sh - 1) \/ BOdd(t)) THEN BAdd(t, <<1>>) ELSE t

\* (-1)^s * m * 2^e rounded to a multiple of 2^q.
RoundAt(s, m, e, q) ==
    Exact(s, IF q <= e THEN m ELSE RoundOff(m, q - e, BShr(m, q - e)), Max2(q, e))

\* The float64 nearest to (-1)^s * m * 2^e: 53 binary digits, the lowest of
\* weight 2^-1074 at least; a tie goes to the even neighbour.
Round(s, m, e) == RoundAt(s, m, e, Max2(e + BBitLen(m) - 53, 0 - 1074))

\* The float64 nearest to (-1)^s * (qr[1] + f) * 2^(e + 1), where 0 <= f < 1
\* and f = 0 if and only if qr[2] = 0: a last digit 1 stands for f > 0.
RoundQuot(s, qr, e) ==
    Round(s, IF qr[2] = <<>> THEN BShl(qr[1], 1) ELSE BAdd(BShl(qr[1], 1), <<1>>), e)

\* The float64 nearest to (-1)^s * (n / d) * 2^e, from the quotient of
\* n * 2^sh by d, which has 56 binary digits at least.
RoundShifted(s, n, d, e, sh) == RoundQuot(s, BDivMod(BShl(n, sh), d), e - sh - 1)

\* The float64 nearest to (-1)^s * (n / d) * 2^e, for n > 0 and d > 0.
RoundRatio(s, n, d, e) ==
    RoundShifted(s, n, d, e, Max2(0, 56 + BBitLen(d) - BBitLen(n)))

\* float64(n) for an integer n of the model (31 binary digits at most)
Num(n) == Exact(IF n < 0 THEN 1 ELSE 0, BFromInt(IF n < 0 THEN 0 - n ELSE n), 0)

\* -x
FNeg(x) == IF IsNaN(x) THEN x ELSE [x EXCEPT !.s = 1 - x.s]

\* x + y for finite x and y other than 0, |y| < 2^(x.e - 60): a value that
\* rounds as the sum does.  y, far below the last binary digit of x, only
\* decides the direction of the rounding.
SumFar(x, y) ==
    [s |-> x.s,
     m |-> IF x.s = y.s THEN BAdd(BShl(x.m, 60), <<1>>) ELSE BSub(BShl(x.m, 60), <<1>>),
     e |-> x.e - 60]

\* (-1)^sx * a * 2^e + (-1)^sy * b * 2^e, where c is BCmp(a, b)
SumSigned(sx, a, sy, b, e, c) ==
    IF sx = sy THEN [s |-> sx, m |-> BAdd(a, b), e |-> e]
    ELSE IF c = 0 THEN [s |-> 0, m |-> <<>>, e |-> e]
    ELSE IF c > 0 THEN [s |-> sx, m |-> BSub(a, b), e |-> e]
    ELSE [s |-> sy, m |-> BSub(b, a), e |-> e]

SumAligned(sx, a, sy, b, e) == SumSigned(sx, a, sy, b, e, BCmp(a, b))

\* x + y for finite x and y other than 0, with both mantissas at the exponent e
SumNear(x, y, e) == SumAligned(x.s, BShl(x.m, x.e - e), y.s, BShl(y.m, y.e - e), e)

\* x + y for finite x and y other than 0, before rounding
Sum(x, y) ==
    IF y.e + BBitLen(y.m) <= x.e - 60 THEN SumFar(x, y)
    ELSE IF x.e + BBitLen(x.m) <= y.e - 60 THEN SumFar(y, x)
    ELSE SumNear(x, y, Min2(x.e, y.e))

RoundSum(t) == Round(t.s, t.m, t.e)

\* x + y
FAdd(x, y) ==
    IF IsNaN(x) \/ IsNaN(y) THEN NaN
    ELSE IF IsInf(x) THEN (IF IsInf(y) /\ y.s # x.s THEN NaN ELSE x)
    ELSE IF IsInf(y) THEN y
    ELSE IF x.m = <<>> THEN (IF y.m = <<>> THEN SignedZero(IF x.s = 1 /\ y.s = 1 THEN 1 ELSE 0)
                             ELSE y)
    ELSE IF y.m = <<>> THEN x
    ELSE RoundSum(Sum(x, y))

\* x - y
FSub(x, y) == FAdd(x, FNeg(y))

\* x * y
FMul(x, y) ==
    IF IsNaN(x) \/ IsNaN(y) THEN NaN
    ELSE IF IsInf(x) \/ IsInf(y)
         THEN (IF IsZero(x) \/ IsZero(y) THEN NaN ELSE Inf(IF x.s = y.s THEN 0 ELSE 1))
    ELSE IF x.m = <<>> \/ y.m = <<>> THEN SignedZero(IF x.s = y.s THEN 0 ELSE 1)
    ELSE Round(IF x.s = y.s THEN 0 ELSE 1, BMul(x.m, y.m), x.e + y.e)

\* x / y
FDiv(x, y) ==
    IF IsNaN(x) \/ IsNaN(y) THEN NaN
    ELSE IF IsInf(x) THEN (IF IsInf(y) THEN NaN ELSE Inf(IF x.s = y.s THEN 0 ELSE 1))
    ELSE IF IsInf(y) THEN SignedZero(IF x.s = y.s THEN 0 ELSE 1)
    ELSE IF y.m = <<>> THEN (IF x.m = <<>> THEN NaN ELSE Inf(IF x.s = y.s THEN 0 ELSE 1))
    ELSE IF x.m = <<>> THEN SignedZero(IF x.s = y.s THEN 0 ELSE 1)
    ELSE RoundRatio(IF x.s = y.s THEN 0 ELSE 1, x.m, y.m, x.e - y.e)

\* |x| < |y| for finite x and y
MagLt(x, y) ==
    IF y.m = <<>> THEN FALSE
    ELSE IF x.m = <<>> THEN TRUE
    ELSE IF x.e + BBitLen(x.m) # y.e + BBitLen(y.m)
    THEN x.e + BBitLen(x.m) < y.e + BBitLen(y.m)
    ELSE BCmp(BShl(x.m, x.e - Min2(x.e, y.e)), BShl(y.m, y.e - Min2(x.e, y.e))) < 0

\* x < y (false when either is NaN)
FLt(x, y) ==
    IF IsNaN(x) \/ IsNaN(y) THEN FALSE
    ELSE IF IsInf(x) THEN x.s = 1 /\ ~(IsInf(y) /\ y.s = 1)
    ELSE IF IsInf(y) THEN y.s = 0
    ELSE IF x.m = <<>> /\ y.m = <<>> THEN FALSE
    ELSE IF x.s # y.s THEN x.s = 1
    ELSE MagLt(IF x.s = 0 THEN x ELSE y, IF x.s = 0 THEN y ELSE x)

\* x > y
FGt(x, y) == FLt(y, x)

\* x == y in Go (NaN differs from itself, 0 equals -0)
FEq(x, y) == (~IsNaN(x)) /\ (~IsNaN(y)) /\ (x = y \/ (IsZero(x) /\ IsZero(y)))

\* x <= y
FLe(x, y) == FLt(x, y) \/ FEq(x, y)

\* The float64 constant n/d of the source (1.0/64.0): constant expressions
\* are exact and rounded once.
Const(n, d) == FDiv(Num(n), Num(d))

(***************************************************************************)
(* Strings and fmt.Sprintf("%g", x).                                       *)
(***************************************************************************)
DigitChar(k) ==
    CASE k = 0 -> "0" [] k = 1 -> "1" [] k = 2 -> "2" [] k = 3 -> "3"
      [] k = 4 -> "4" [] k = 5 -> "5" [] k = 6 -> "6" [] k = 7 -> "7"
      [] k = 8 -> "8" [] OTHER -> "9"

\* The characters of a sequence of decimal digits.
Chars(ds) == [i \in 1..Len(ds) |-> DigitChar(ds[i])]

\* n characters "0"
ZeroChars(n) == IF n <= 0 THEN <<>> ELSE [i \in 1..n |-> "0"]

\* The decimal digits of a > 0, most significant first.
RECURSIVE BDecimal(_)
BDecimal(a) ==
    IF a = <<>> THEN <<>>
    ELSE LET qr == BDivSmall(a, 10) IN Append(BDecimal(qr[1]), qr[2])

\* A gap is within a bound: below it, or equal to it when the bound counts.
Within(gap, bound, inclusive) == BCmp(gap, bound) < 0 \/ (inclusive /\ gap = bound)

\* |x| cut to the digits `down`, `cut` units below |x|, where the last digit
\* kept weighs `whole` units: whether `down` reads back as x, whether down + 1
\* does, and whether |x| is below (-1), at (0) or above (1) the middle of them.
CutOf(w, down, cut, whole) ==
    [down |-> down,
     okdown |-> Within(cut, w.glo, w.inclusive),
     okup |-> Within(BSub(whole, cut), w.ghi, w.inclusive),
     half |-> BCmp(BShl(cut, 1), whole)]

\* |x| cut where the last digit kept weighs p * w.ds units; qr is the
\* quotient and the remainder of the 17 digits of |x| by p.
CutBy(w, p, qr) == CutOf(w, qr[1], BAdd(BMul(qr[2], w.ds), w.ir[2]), BMul(p, w.ds))

CutWith(w, p) == CutBy(w, p, BDivMod(w.ir[1], p))

\* |x| cut after n digits
Cut(w, n) == CutWith(w, BPow10(17 - n))

\* The least number n of digits with which |x|, cut after n digits or the
\* next decimal above, reads back as x (17 always do), and that cut.
RECURSIVE First(_, _)
FirstOr(w, n, c) ==
    IF n = 17 \/ c.okdown \/ c.okup THEN [n |-> n, c |-> c] ELSE First(w, n + 1)

First(w, n) == FirstOr(w, n, Cut(w, n))

\* The digits of the decimal j of n digits, whose first digit weighs
\* 10^(k-1): [d |-> the digits, dp |-> the position of the decimal point].
Digits(j, n, k) ==
    IF j = BPow10(n) THEN [d |-> <<1>>, dp |-> k + 1]
    ELSE [d |-> BDecimal(j), dp |-> k]

\* Of a cut and the next decimal above, the one that reads back as x; the
\* nearer to x if both do, the even one if they are as near.
Nearest(r, k) ==
    Digits(IF IF r.c.okdown /\ r.c.okup
              THEN r.c.half > 0 \/ (r.c.half = 0 /\ BOdd(r.c.down))
              ELSE r.c.okup
           THEN BAdd(r.c.down, <<1>>)
           ELSE r.c.down,
           r.n, k)

\* The shortest decimal that reads back as the finite x # 0, when its first
\* digit has weight 10^(k-1).  A decimal reads back as x when it lies between
\* the midpoints of x and its two neighbours (the midpoints included when the
\* last binary digit of x is 0).  q is the exponent of the last binary digit
\* of x; |x| and the distances to the midpoints are counted in units of
\* 2^(q-2) / 10^(k-17) = ds / f: |x| is ir[1] + ir[2] / ds units, the
\* midpoints are glo / ds units below and ghi / ds units above.
RECURSIVE ShortestAt(_, _)
ShortestOf(x, k, w) ==
    IF BCmp(w.ir[1], BPow10(17)) >= 0 THEN ShortestAt(x, k + 1)
    ELSE IF BCmp(w.ir[1], BPow10(16)) < 0 THEN ShortestAt(x, k - 1)
    ELSE Nearest(First(w, 1), k)

ShortestUnits(x, k, q, f, ds) ==
    ShortestOf(x, k,
               [ir |-> BDivMod(BMul(BShl(x.m, x.e - q + 2), f), ds),
                ds |-> ds,
                glo |-> BMulSmall(f, IF x.m = <<1>> /\ q > 0 - 1074 THEN 1 ELSE 2),
                ghi |-> BMulSmall(f, 2),
                inclusive |-> x.e > q])

ShortestLow(x, k, q) ==
    ShortestUnits(x, k, q,
                  BMul(BShl(<<1>>, Max2(q - 2, 0)), BPow10(Max2(17 - k, 0))),
                  BMul(BShl(<<1>>, Max2(2 - q, 0)), BPow10(Max2(k - 17, 0))))

ShortestAt(x, k) == ShortestLow(x, k, Max2(x.e + BBitLen(x.m) - 53, 0 - 1074))

Shortest(x) == ShortestAt(x, ((x.e + BBitLen(x.m) - 1) * 30103) \div 100000 + 1)

\* The decimal digits of the exponent a >= 0 of %e: two at least.
ExpChars(a) ==
    (IF a < 10 THEN <<"0">> ELSE <<>>)
        \o Chars(BDecimal(BFromInt(a)) \o (IF a = 0 THEN <<0>> ELSE <<>>))

\* %e of the digits d with the decimal point at dp: d.ddde+xx
FmtE(d, dp) ==
    <<DigitChar(d[1])>>
        \o (IF Len(d) > 1 THEN <<".">> \o Chars(Tail(d)) ELSE <<>>)
        \o <<"e", IF dp - 1 < 0 THEN "-" ELSE "+">>
        \o ExpChars(IF dp - 1 < 0 THEN 1 - dp ELSE dp - 1)

\* %f of the digits d with the decimal point at dp, Len(d) - dp digits after it
FmtF(d, dp) ==
    (IF dp <= 0 THEN <<"0">>
     ELSE Chars(SubSeq(d, 1, Min2(dp, Len(d)))) \o ZeroChars(dp - Len(d)))
        \o (IF Len(d) > dp
            THEN <<".">> \o ZeroChars(0 - dp) \o Chars(SubSeq(d, Max2(dp, 0) + 1, Len(d)))
            ELSE <<>>)

\* %g of the shortest digits: in the form %e when the exponent is below -4
\* or at least 6 (the precision of the shortest form), else in the form %f.
FmtG(digs) ==
    IF digs.dp - 1 < 0 - 4 \/ digs.dp - 1 >= 6 THEN FmtE(digs.d, digs.dp)
    ELSE FmtF(digs.d, digs.dp)

\* fmt.Sprintf("%g", x)
FormatG(x) ==
    IF IsNaN(x) THEN <<"N", "a", "N">>
    ELSE IF IsInf(x) THEN <<IF x.s = 1 THEN "-" ELSE "+", "I", "n", "f">>
    ELSE (IF x.s = 1 THEN <<"-">> ELSE <<>>)
            \o (IF x.m = <<>> THEN <<"0">> ELSE FmtG(Shortest(x)))

(***************************************************************************)
(* Fonts (the font provider) and drawing areas: collaborators of axis.go.  *)
(***************************************************************************)
\* vecgfx.PtInch: points per inch.
PtInch == 72

PtInchF == Num(PtInch)

\* A font: its extents and advance widths, in points.
Font(asc, desc, height, adv, space) ==
    [Ascent |-> asc, Descent |-> desc, Height |-> height, Adv |-> adv, Space |-> space]

\* Font.Extents()
Extents(font) ==
    [Ascent |-> font.Ascent, Descent |-> font.Descent, Height |-> font.Height]

\* Font.Width(s): the sum of the advance widths of the characters of s.
RECURSIVE FontWidth(_, _)
FontWidth(font, s) ==
    IF s = <<>> THEN Zero
    ELSE FAdd(IF Head(s) = " " THEN font.Space ELSE font.Adv, FontWidth(font, Tail(s)))

\* da.Max()
DaMax(da) == da.Max

\* da.Center()
DaCenter(da) ==
    [X |-> FDiv(FAdd(da.Min.X, da.Max.X), Num(2)),
     Y |-> FDiv(FAdd(da.Min.Y, da.Max.Y), Num(2))]

\* da.DPI()
DaDPI(da) == da.DPI

\* da.Text(x, y, xalign, yalign, s) under the text style and rotation in force.
TextCall(x, y, xalign, yalign, s, style, rotated) ==
    [x |-> x, y |-> y, xalign |-> xalign, yalign |-> yalign, s |-> s,
     style |-> style, rotated |-> rotated]

\* da.Line([]Point{p, q}) under the line style in force.
LineCall(p, q, style) == [p |-> p, q |-> q, style |-> style]

Point(x, y) == [X |-> x, Y |-> y]

(***************************************************************************)
(* Ticks and tick generators.                                              *)
(***************************************************************************)
Tick(value, label) == [Value |-> value, Label |-> label]

\* Tick.minor
minor(t) == t.Label = <<>>

\* lengthOffset without the minor case: every mark gets the full length.
lengthOffset_Full(t, len) == Zero

\* Tick.lengthOffset
lengthOffset(t, len) == IF minor(t) THEN FDiv(len, Num(2)) ELSE Zero

\* DefaultTicks.Marks
DefaultTicksMarks(min, max) ==
    << Tick(min, FormatG(min)),
       Tick(FAdd(min, FDiv(FSub(max, min), Num(4))), <<>>),
       Tick(FAdd(min, FDiv(FSub(max, min), Num(2))),
            FormatG(FAdd(min, FDiv(FSub(max, min), Num(2))))),
       Tick(FAdd(min, FDiv(FMul(Num(3), FSub(max, min)), Num(4))), <<>>),
       Tick(max, FormatG(max)) >>

\* ConstantTicks.Marks keeping only the ticks of the range.
ConstantTicksMarks_InRange(tks, min, max) ==
    SelectSeq(tks, LAMBDA t : FLe(min, t.Value) /\ FLe(t.Value, max))

\* ConstantTicks.Marks
ConstantTicksMarks(tks, min, max) == tks

\* The TickMarker values: DefaultTicks(struct{}{}), ConstantTicks(tks) and
\* the nil interface, the zero value of the field.
DefaultTicks == [kind |-> "DefaultTicks", tks |-> <<>>]

ConstantTicks(tks) == [kind |-> "ConstantTicks", tks |-> tks]

NilTickMarker == [kind |-> "nil", tks |-> <<>>]

\* TickMarker.Marks: the call through the interface (none through nil).
Marks(marker, min, max) ==
    CASE marker.kind = "DefaultTicks" -> DefaultTicksMarks(min, max)
      [] marker.kind = "ConstantTicks" -> ConstantTicksMarks(marker.tks, min, max)

\* TickMarks.labelHeight
RECURSIVE labelHeight(_, _)
labelHeight(tick, ticks) ==
    IF ticks = <<>> THEN Zero
    ELSE IF minor(Head(ticks)) THEN labelHeight(tick, Tail(ticks))
    ELSE FDiv(Extents(tick.LabelStyle.Font).Ascent, PtInchF)

\* The loop of labelWidth without the w > maxWidth test: the last width wins.
RECURSIVE labelWidthLoop_Last(_, _, _)
labelWidthLoop_Last(tick, ticks, maxWidth) ==
    IF ticks = <<>> THEN maxWidth
    ELSE IF minor(Head(ticks)) THEN labelWidthLoop_Last(tick, Tail(ticks), maxWidth)
    ELSE labelWidthLoop_Last(tick, Tail(ticks),
                             FontWidth(tick.LabelStyle.Font, Head(ticks).Label))

\* The loop of TickMarks.labelWidth: maxWidth after the ticks.
RECURSIVE labelWidthLoop(_, _, _)
labelWidthLoop(tick, ticks, maxWidth) ==
    IF ticks = <<>> THEN maxWidth
    ELSE IF minor(Head(ticks)) THEN labelWidthLoop(tick, Tail(ticks), maxWidth)
    ELSE LET w == FontWidth(tick.LabelStyle.Font, Head(ticks).Label)
         IN  labelWidthLoop(tick, Tail(ticks), IF FGt(w, maxWidth) THEN w ELSE maxWidth)

\* TickMarks.labelWidth
labelWidth(tick, ticks) == FDiv(labelWidthLoop(tick, ticks, Zero), PtInchF)

(***************************************************************************)
(* The Axis.                                                               *)
(***************************************************************************)
TextStyle(color, font) == [Color |-> color, Font |-> font]

LineStyle(color, width) == [Color |-> color, Width |-> width]

\* MakeTickMarks, given the font MakeFont(DefaultFont, 10) returned.
MakeTickMarks(labelFont) ==
    [LabelStyle |-> TextStyle("Black", labelFont),
     MarkStyle |-> LineStyle("Black", Const(1, 64)),
     Length |-> Const(1, 10),
     TickMarker |-> DefaultTicks]

\* MakeAxis, given the fonts MakeFont(DefaultFont, 12) and, in MakeTickMarks,
\* MakeFont(DefaultFont, 10) returned.
MakeAxis(labelFont, tickFont) ==
    [Min |-> PosInf,
     Max |-> NegInf,
     Label |-> <<>>,
     LabelStyle |-> TextStyle("Black", labelFont),
     AxisStyle |-> LineStyle("Black", Const(1, 64)),
     Padding |-> Const(1, 8),
     Ticks |-> MakeTickMarks(tickFont)]

\* X without the origin of the drawing area.
X_NoOrigin(a, da, x) ==
    FMul(FDiv(FSub(x, a.Min), FSub(a.Max, a.Min)), FSub(DaMax(da).X, da.Min.X))

\* Axis.X
X(a, da, x) ==
    FAdd(da.Min.X,
         FMul(FDiv(FSub(x, a.Min), FSub(a.Max, a.Min)), FSub(DaMax(da).X, da.Min.X)))

\* Axis.Y
Y(a, da, y) ==
    FAdd(da.Min.Y,
         FMul(FDiv(FSub(y, a.Min), FSub(a.Max, a.Min)), FSub(DaMax(da).Y, da.Min.Y)))

\* The end of height, from h after the ticks: the half width of the axis
\* line and the padding.
heightLine(a, h) == FAdd(FAdd(h, FDiv(a.AxisStyle.Width, Num(2))), a.Padding)

\* height from the marks on, with h after the axis label.
heightTicks(a, marks, h) ==
    heightLine(a, IF Len(marks) > 0
                  THEN FAdd(h, FAdd(a.Ticks.Length, labelHeight(a.Ticks, marks)))
                  ELSE h)

\* height reserving the ascent of the axis label, not its height.
height_LabelAscent(a) ==
    heightTicks(a, Marks(a.Ticks.TickMarker, a.Min, a.Max),
                IF a.Label # <<>>
                THEN FAdd(Zero, FDiv(Extents(a.LabelStyle.Font).Ascent, PtInchF))
                ELSE Zero)

\* height without the len(marks) > 0 test: the tick length is always reserved.
height_TicksAlways(a) ==
    heightLine(a, FAdd(IF a.Label # <<>>
                       THEN FAdd(Zero, FDiv(Extents(a.LabelStyle.Font).Height, PtInchF))
                       ELSE Zero,
                       FAdd(a.Ticks.Length,
                            labelHeight(a.Ticks, Marks(a.Ticks.TickMarker, a.Min, a.Max)))))

\* Axis.height
height(a) ==
    heightTicks(a, Marks(a.Ticks.TickMarker, a.Min, a.Max),
                IF a.Label # <<>>
                THEN FAdd(Zero, FDiv(Extents(a.LabelStyle.Font).Height, PtInchF))
                ELSE Zero)

\* The end of width, from w after the ticks: the half width of the axis line
\* and the padding.
widthLine(a, w) == FAdd(FAdd(w, FDiv(a.AxisStyle.Width, Num(2))), a.Padding)

\* w after the tick labels of width lwidth: the labels and a space after
\* them, if any label has a width.
widthLabels(a, w, lwidth) ==
    IF FGt(lwidth, Zero)
    THEN FAdd(FAdd(w, lwidth), FDiv(FontWidth(a.Ticks.LabelStyle.Font, <<" ">>), PtInchF))
    ELSE w

\* width from the marks on, with w after the axis label.
widthTicks(a, marks, w) ==
    widthLine(a, IF Len(marks) > 0
                 THEN FAdd(widthLabels(a, w, labelWidth(a.Ticks, marks)), a.Ticks.Length)
                 ELSE w)

\* Axis.width
width(a) ==
    widthTicks(a, Marks(a.Ticks.TickMarker, a.Min, a.Max),
               IF a.Label # <<>>
               THEN FAdd(Zero, FDiv(Extents(a.LabelStyle.Font).Ascent, PtInchF))
               ELSE Zero)

\* The end of drawHoriz: the axis line at the cursor y, after the texts and
\* the tick mark lines drawn before it.
drawHorizLine(a, da, texts, lines, y) ==
    [texts |-> texts,
     lines |-> lines \o <<LineCall(Point(da.Min.X, y), Point(DaMax(da).X, y), a.AxisStyle)>>]

\* The da.Line of the tick t, which is at x, with the cursor at y.
drawHorizMark(a, t, x, y, len) ==
    LineCall(Point(x, FAdd(y, lengthOffset(t, len))), Point(x, FAdd(y, len)),
             a.Ticks.MarkStyle)

\* The second loop of drawHoriz, with the cursor y after the tick labels, and
\* y += len.
drawHorizMarks(a, da, marks, texts, y, len) ==
    drawHorizLine(a, da, texts,
                  [i \in 1..Len(marks) |->
                      drawHorizMark(a, marks[i], X(a, da, marks[i].Value), y, len)],
                  FAdd(y, len))

\* The first loop of drawHoriz: a da.Text for every tick that is not minor.
drawHorizTexts(a, da, majors, y) ==
    [i \in 1..Len(majors) |->
        TextCall(X(a, da, majors[i].Value), y, Const(0 - 1, 2), Zero, majors[i].Label,
                 a.Ticks.LabelStyle, FALSE)]

\* drawHoriz from the marks on, with the cursor y after the axis label.
drawHorizTicks(a, da, marks, texts, y) ==
    IF Len(marks) > 0
    THEN drawHorizMarks(a, da, marks,
                        texts \o drawHorizTexts(a, da, SelectSeq(marks, LAMBDA t : ~minor(t)), y),
                        FAdd(y, FMul(labelHeight(a.Ticks, marks), DaDPI(da))),
                        FMul(a.Ticks.Length, DaDPI(da)))
    ELSE drawHorizLine(a, da, texts, <<>>, y)

\* The axis label of drawHoriz, drawn at the cursor yl, which is the first
\* `y +=` above da.Min.Y.
drawHorizLabel(a, da, marks, yl) ==
    drawHorizTicks(a, da, marks,
                   IF a.Label # <<>>
                   THEN <<TextCall(DaCenter(da).X, yl, Const(0 - 1, 2), Zero, a.Label,
                                   a.LabelStyle, FALSE)>>
                   ELSE <<>>,
                   IF a.Label # <<>>
                   THEN FAdd(yl, FMul(FDiv(Extents(a.LabelStyle.Font).Ascent, PtInchF),
                                      DaDPI(da)))
                   ELSE da.Min.Y)

\* Axis.drawHoriz: the da.Text and da.Line calls of one pass, in order.
drawHoriz(a, da) ==
    drawHorizLabel(a, da, Marks(a.Ticks.TickMarker, a.Min, a.Max),
                   FAdd(da.Min.Y,
                        FNeg(FMul(FDiv(Extents(a.LabelStyle.Font).Descent, PtInchF),
                                  DaDPI(da)))))

\* The end of drawVert: the axis line at the cursor x, after the texts and
\* the tick mark lines drawn before it.
drawVertLine(a, da, texts, lines, x) ==
    [texts |-> texts,
     lines |-> lines \o <<LineCall(Point(x, da.Min.Y), Point(x, DaMax(da).Y), a.AxisStyle)>>]

\* The da.Line of the tick t, which is at y, with the cursor at x.
drawVertMark(a, t, x, y, len) ==
    LineCall(Point(FAdd(x, lengthOffset(t, len)), y), Point(FAdd(x, len), y),
             a.Ticks.MarkStyle)

\* The loops of drawVert, with the cursor x after the space of the tick
\* labels, and x += len.
drawVertMarks(a, da, marks, majors, texts, x, len) ==
    drawVertLine(a, da,
                 texts \o [i \in 1..Len(majors) |->
                              TextCall(x, Y(a, da, majors[i].Value), Num(0 - 1),
                                       Const(0 - 1, 2), Append(majors[i].Label, " "),
                                       a.Ticks.LabelStyle, FALSE)],
                 [i \in 1..Len(marks) |->
                     drawVertMark(a, marks[i], x, Y(a, da, marks[i].Value), len)],
                 FAdd(x, len))

\* The cursor x after the tick labels of width lwidth: the labels and a space
\* after them, if any label has a width.
drawVertLabels(a, da, x, lwidth) ==
    IF FGt(lwidth, Zero)
    THEN FAdd(FAdd(x, FMul(lwidth, DaDPI(da))),
              FMul(FDiv(FontWidth(a.Ticks.LabelStyle.Font, <<" ">>), PtInchF), DaDPI(da)))
    ELSE x

\* drawVert from the marks on, with the cursor x after the axis label.
drawVertTicks(a, da, marks, texts, x) ==
    IF Len(marks) > 0
    THEN drawVertMarks(a, da, marks, SelectSeq(marks, LAMBDA t : ~minor(t)), texts,
                       drawVertLabels(a, da, x, labelWidth(a.Ticks, marks)),
                       FMul(a.Ticks.Length, DaDPI(da)))
    ELSE drawVertLine(a, da, texts, <<>>, x)

\* The axis label of drawVert, drawn (rotated) at the cursor xl, which is the
\* first `x +=` above da.Min.X.
drawVertLabel(a, da, marks, xl) ==
    drawVertTicks(a, da, marks,
                  IF a.Label # <<>>
                  THEN <<TextCall(DaCenter(da).Y, FNeg(xl), Const(0 - 1, 2), Zero, a.Label,
                                  a.LabelStyle, TRUE)>>
                  ELSE <<>>,
                  IF a.Label # <<>>
                  THEN FAdd(xl, FMul(FDiv(FNeg(Extents(a.LabelStyle.Font).Descent), PtInchF),
                                     DaDPI(da)))
                  ELSE da.Min.X)

\* Axis.drawVert: the da.Text and da.Line calls of one pass, in order.
drawVert(a, da) ==
    drawVertLabel(a, da, Marks(a.Ticks.TickMarker, a.Min, a.Max),
                  FAdd(da.Min.X,
                       FMul(FDiv(Extents(a.LabelStyle.Font).Ascent, PtInchF), DaDPI(da))))

(***************************************************************************)
(* The values the callers of the package supply.                           *)
(***************************************************************************)
DataVals == {Num(i) : i \in (0 - MaxData)..MaxData}

\* math.MaxFloat64: (2^53 - 1) * 2^971
MaxFloat64 == Exact(0, BSub(BShl(<<1>>, 53), <<1>>), 971)

\* The ranges a caller sets: every pair of data values, Min < Max or not, a
\* range up to the largest float64 and the widest finite range.
DataRanges ==
    (DataVals \X DataVals) \cup {<<Zero, MaxFloat64>>, <<FNeg(MaxFloat64), MaxFloat64>>}

\* Arguments of X and Y: the data values, a point between two of them and
\* the largest float64.
XVals == DataVals \cup {Const(1, 2), MaxFloat64}

\* Fonts the font provider can return.  FontExact has Height = Ascent - Descent;
\* the Height of FontLeaded, a line height, is larger.
FontExact == Font(Num(9), Num(0 - 3), Num(12), Num(5), Num(3))

FontLeaded == Font(Num(8), Num(0 - 2), Num(11), Num(6), Num(2))

Fonts == {FontExact, FontLeaded}

\* The zero value of a Font.
NoFont == Font(Zero, Zero, Zero, Zero, Zero)

\* MakeFont(name, size): a font, or an error.
MakeFontResults ==
    {[err |-> FALSE, font |-> f] : f \in Fonts} \cup {[err |-> TRUE, font |-> NoFont]}

Labels == {<<>>, <<"X">>}

\* Axis.AxisStyle.Width and Axis.Padding, in inches.
AxisStyles ==
    { [Width |-> Const(1, 64), Padding |-> Const(1, 8)],
      [Width |-> Const(1, 10), Padding |-> Zero] }

\* TickMarks.LabelStyle.Font and TickMarks.Length (in inches).
TickStyles ==
    { [Font |-> FontExact, Length |-> Const(1, 4)],
      [Font |-> FontLeaded, Length |-> Const(1, 10)] }

\* The ticks of constant generators: two major ticks and a minor one.
TickVals ==
    { Tick(Num(10), <<"a">>), Tick(Num(20), <<>>), Tick(Zero, <<"b", "b">>) }

TickSeqs == UNION {[1..n -> TickVals] : n \in 0..MaxTicks}

TickMarkers == {DefaultTicks} \cup {ConstantTicks(tks) : tks \in TickSeqs}

\* The generators of the axes that are measured and drawn: the default one
\* and constant ones with no tick, with a minor tick only, and with a major
\* and a minor tick.
LayoutMarkers ==
    { DefaultTicks,
      ConstantTicks(<<>>),
      ConstantTicks(<<Tick(Num(20), <<>>)>>),
      ConstantTicks(<<Tick(Num(10), <<"a">>), Tick(Num(20), <<>>)>>) }

\* The range of the axes that are measured and drawn, besides that of MakeAxis.
LayoutRanges == { <<Num(0 - 1), Num(1)>> }

\* Drawing areas: Min, Max() and DPI().
DrawArea(min, max, dpi) == [Min |-> min, Max |-> max, DPI |-> dpi]

\* The areas the axes are drawn on.
LayoutAreas ==
    { DrawArea(Point(Zero, Zero), Point(Num(4), Num(2)), Num(72)),
      DrawArea(Point(Num(1), Num(2)), Point(Num(5), Num(8)), Num(96)) }

\* The areas data points are transformed to: an area with integer corners, an
\* area whose Max().X is below its Min.X and that has no height, an area with
\* the corners (1.1, 1.1) and (6.2, 6.2), and an area whose extent is beyond
\* the largest float64.
DrawAreas ==
    { DrawArea(Point(Num(1), Num(2)), Point(Num(5), Num(8)), Num(96)),
      DrawArea(Point(Num(3), Num(3)), Point(Num(1), Num(3)), Num(72)),
      DrawArea(Point(Const(11, 10), Const(11, 10)), Point(Const(31, 5), Const(31, 5)),
               Num(72)),
      DrawArea(Point(FNeg(MaxFloat64), FNeg(MaxFloat64)), Point(MaxFloat64, MaxFloat64),
               Num(72)) }

\* The zero value of an Axis (its TickMarker is the nil interface): the
\* variable before MakeAxis has returned.
NoAxis ==
    [Min |-> Zero, Max |-> Zero, Label |-> <<>>,
     LabelStyle |-> TextStyle("", NoFont),
     AxisStyle |-> LineStyle("", Zero),
     Padding |-> Zero,
     Ticks |-> [LabelStyle |-> TextStyle("", NoFont), MarkStyle |-> LineStyle("", Zero),
                Length |-> Zero, TickMarker |-> NilTickMarker]]

NoArg ==
    [da |-> DrawArea(Point(Zero, Zero), Point(Zero, Zero), Zero), v |-> Zero, min |-> Zero, max |-> Zero,
     ticks |-> <<>>]

NoCanvas == [texts |-> <<>>, lines |-> <<>>]

\* The last operation and what it returned.
Returns(name, args, r, ms, cv) ==
    /\ op' = name
    /\ arg' = args
    /\ ret' = r
    /\ retMarks' = ms
    /\ canvas' = cv

\* An operation that returns nothing: a constructor ("MakeAxis",
\* "MakeTickMarks") or an assignment to fields of the axis ("assign").
Done(name) == Returns(name, NoArg, Zero, <<>>, NoCanvas)

(***************************************************************************)
(* The life of an Axis: construction, the caller's assignments to its      *)
(* fields, measurement and drawing.                                        *)
(***************************************************************************)
Init ==
    /\ phase = "new"
    /\ axis = NoAxis
    /\ op = "none"
    /\ arg = NoArg
    /\ ret = Zero
    /\ retMarks = <<>>
    /\ canvas = NoCanvas

\* a := MakeAxis()
CallMakeAxis ==
    /\ phase = "new"
    /\ \E r12 \in MakeFontResults, r10 \in MakeFontResults :
          IF r12.err \/ r10.err
          THEN /\ phase' = "panicked"
               /\ axis' = axis
          ELSE /\ phase' = "ready"
               /\ axis' = MakeAxis(r12.font, r10.font)
    /\ Done("MakeAxis")

\* a.Ticks = MakeTickMarks()
CallMakeTickMarks ==
    /\ phase = "ready"
    /\ \E r10 \in MakeFontResults :
          IF r10.err
          THEN /\ phase' = "panicked"
               /\ axis' = axis
          ELSE /\ phase' = "ready"
               /\ axis' = [axis EXCEPT !.Ticks = MakeTickMarks(r10.font)]
    /\ Done("MakeTickMarks")

\* a.Min, a.Max = r[1], r[2] for a range r of the set rs
SetRangeOf(rs) ==
    /\ phase = "ready"
    /\ \E r \in rs : axis' = [axis EXCEPT !.Min = r[1], !.Max = r[2]]
    /\ phase' = phase
    /\ Done("assign")

\* The caller sets a range with Min < Max.
SetRange == SetRangeOf(LayoutRanges)

\* a.Label, a.LabelStyle.Font = l, f
SetLabel ==
    /\ phase = "ready"
    /\ \E l \in Labels, f \in Fonts :
          axis' = [axis EXCEPT !.Label = l, !.LabelStyle.Font = f]
    /\ phase' = phase
    /\ Done("assign")

\* a.AxisStyle.Width, a.Padding = w, p
SetAxisStyle ==
    /\ phase = "ready"
    /\ \E st \in AxisStyles :
          axis' = [axis EXCEPT !.AxisStyle.Width = st.Width, !.Padding = st.Padding]
    /\ phase' = phase
    /\ Done("assign")

\* a.Ticks.LabelStyle.Font, a.Ticks.Length = f, l
SetTickStyle ==
    /\ phase = "ready"
    /\ \E st \in TickStyles :
          axis' = [axis EXCEPT !.Ticks.LabelStyle.Font = st.Font, !.Ticks.Length = st.Length]
    /\ phase' = phase
    /\ Done("assign")

\* a.Ticks.TickMarker = m for a generator m of the set gens
SetTickMarkerOf(gens) ==
    /\ phase = "ready"
    /\ \E m \in gens : axis' = [axis EXCEPT !.Ticks.TickMarker = m]
    /\ phase' = phase
    /\ Done("assign")

SetTickMarker == SetTickMarkerOf(LayoutMarkers)

\* a.height()
CallHeight ==
    /\ phase = "ready"
    /\ Returns("height", NoArg, height(axis), <<>>, NoCanvas)
    /\ UNCHANGED <<phase, axis>>

\* a.width()
CallWidth ==
    /\ phase = "ready"
    /\ Returns("width", NoArg, width(axis), <<>>, NoCanvas)
    /\ UNCHANGED <<phase, axis>>

\* a.drawHoriz(da)
CallDrawHoriz ==
    /\ phase = "ready"
    /\ \E da \in LayoutAreas :
          Returns("drawHoriz", [NoArg EXCEPT !.da = da], Zero, <<>>, drawHoriz(axis, da))
    /\ UNCHANGED <<phase, axis>>

\* a.drawVert(da)
CallDrawVert ==
    /\ phase = "ready"
    /\ \E da \in LayoutAreas :
          Returns("drawVert", [NoArg EXCEPT !.da = da], Zero, <<>>, drawVert(axis, da))
    /\ UNCHANGED <<phase, axis>>

Next ==
    \/ CallMakeAxis
    \/ CallMakeTickMarks
    \/ SetRange
    \/ SetLabel
    \/ SetAxisStyle
    \/ SetTickStyle
    \/ SetTickMarker
    \/ CallHeight
    \/ CallWidth
    \/ CallDrawHoriz
    \/ CallDrawVert

Spec == Init /\ [][Next]_vars

(***************************************************************************)
(* The transform: a constructed axis whose range the caller changes        *)
(* between calls of X and Y.                                               *)
(***************************************************************************)
InitReady ==
    /\ phase = "ready"
    /\ \E f12 \in Fonts, f10 \in Fonts : axis = MakeAxis(f12, f10)
    /\ op = "none"
    /\ arg = NoArg
    /\ ret = Zero
    /\ retMarks = <<>>
    /\ canvas = NoCanvas

\* An axis from MakeAxis; the transform and the generators use none of its
\* fonts.
InitOneFont ==
    /\ InitReady
    /\ axis = MakeAxis(FontExact, FontExact)

\* The caller sets any range, Min < Max or not.
SetAnyRange == SetRangeOf(DataRanges)

\* a.X(da, x)
CallX ==
    /\ phase = "ready"
    /\ \E da \in DrawAreas, x \in XVals :
          Returns("X", [NoArg EXCEPT !.da = da, !.v = x], X(axis, da, x), <<>>, NoCanvas)
    /\ UNCHANGED <<phase, axis>>

\* a.Y(da, y)
CallY ==
    /\ phase = "ready"
    /\ \E da \in DrawAreas, y \in XVals :
          Returns("Y", [NoArg EXCEPT !.da = da, !.v = y], Y(axis, da, y), <<>>, NoCanvas)
    /\ UNCHANGED <<phase, axis>>

NextXY == SetAnyRange \/ CallX \/ CallY

SpecXY == InitOneFont /\ [][NextXY]_vars

(***************************************************************************)
(* The tick generators and the label measurements of a TickMarks value.    *)
(***************************************************************************)
SetAnyTickMarker == SetTickMarkerOf(TickMarkers)

\* a.Ticks.LabelStyle.Font = f
SetTickFont ==
    /\ phase = "ready"
    /\ \E f \in Fonts : axis' = [axis EXCEPT !.Ticks.LabelStyle.Font = f]
    /\ phase' = phase
    /\ Done("assign")

\* a.Ticks.Marks(min, max)
CallMarks ==
    /\ phase = "ready"
    /\ \E r \in DataRanges :
          Returns("Marks", [NoArg EXCEPT !.min = r[1], !.max = r[2]], Zero,
                  Marks(axis.Ticks.TickMarker, r[1], r[2]), NoCanvas)
    /\ UNCHANGED <<phase, axis>>

\* a.Ticks.labelHeight(ticks)
CallLabelHeight ==
    /\ phase = "ready"
    /\ \E ticks \in TickSeqs :
          Returns("labelHeight", [NoArg EXCEPT !.ticks = ticks],
                  labelHeight(axis.Ticks, ticks), <<>>, NoCanvas)
    /\ UNCHANGED <<phase, axis>>

\* a.Ticks.labelWidth(ticks)
CallLabelWidth ==
    /\ phase = "ready"
    /\ \E ticks \in TickSeqs :
          Returns("labelWidth", [NoArg EXCEPT !.ticks = ticks],
                  labelWidth(axis.Ticks, ticks), <<>>, NoCanvas)
    /\ UNCHANGED <<phase, axis>>

NextMarks == SetAnyTickMarker \/ CallMarks

\* The generators: the caller installs one and calls it with any range.
SpecMarks == InitOneFont /\ [][NextMarks]_vars

NextLabels == SetTickFont \/ CallLabelHeight \/ CallLabelWidth

\* The label measurements: the caller measures any tick sequence in any font.
SpecLabels == InitReady /\ [][NextLabels]_vars

(***************************************************************************)
(* Properties of measurement and drawing (specification Spec).             *)
(***************************************************************************)
\* |x|
FAbs(x) == IF IsNaN(x) THEN x ELSE [x EXCEPT !.s = 0]

\* The larger of x and y.
FMax(x, y) == IF FLt(x, y) THEN y ELSE x

\* x and y differ by at most 2^(-k) * mag: they are equal but for the
\* rounding of a few float64 operations on values of magnitude mag.
Close(x, y, k, mag) == FLe(FAbs(FSub(x, y)), FMul(Exact(0, <<1>>, 0 - k), mag))

\* The ticks the generator of the axis returns for its range.
AxisMarks == Marks(axis.Ticks.TickMarker, axis.Min, axis.Max)

\* The last line of a drawing pass: the axis line.
AxisLine == canvas.lines[Len(canvas.lines)]

\* The extents of the font of the axis label.
LabelExtents == Extents(axis.LabelStyle.Font)

\* In pixels, what x inches minus the half line width and the padding are.
ReservedBeforeLine(x) ==
    FMul(FSub(FSub(x, FDiv(axis.AxisStyle.Width, Num(2))), axis.Padding), DaDPI(arg.da))

\* The largest magnitude among the coordinates lo and hi and x inches in pixels.
LayoutMag(lo, hi, x) == FMax(FMax(FAbs(lo), FAbs(hi)), FAbs(FMul(x, DaDPI(arg.da))))

\* Claim C1: after drawHoriz(da), for every axis (any Label, any ticks, any
\* font extents, any Length) and any DPI, the distance from da.Min.Y to the y
\* of the axis line is (height() - AxisStyle.Width/2 - Padding) * DPI.  The
\* equality is stated up to float64 rounding (the two differ by at most 2^-46
\* times the largest of |da.Min.Y|, |y of the line| and height() * DPI), so
\* that only a term that height() and drawHoriz do not share violates it.
C1_HorizLineAtHeight ==
    op = "drawHoriz" =>
        Close(FSub(AxisLine.p.Y, arg.da.Min.Y), ReservedBeforeLine(height(axis)), 46,
              LayoutMag(arg.da.Min.Y, AxisLine.p.Y, height(axis)))

\* Claim C2: after drawVert(da), the distance from da.Min.X to the x of the
\* axis line is (width() - AxisStyle.Width/2 - Padding) * DPI (up to float64
\* rounding: at most 2^-46 times the largest of |da.Min.X|, |x of the line|
\* and width() * DPI).
C2_VertLineAtWidth ==
    op = "drawVert" =>
        Close(FSub(AxisLine.p.X, arg.da.Min.X), ReservedBeforeLine(width(axis)), 46,
              LayoutMag(arg.da.Min.X, AxisLine.p.X, width(axis)))

\* The term of the ticks in height(): Length + labelHeight(marks) if and only
\* if the generator returns a tick.
HeightTickTerm ==
    IF Len(AxisMarks) > 0
    THEN FAdd(axis.Ticks.Length, labelHeight(axis.Ticks, AxisMarks))
    ELSE Zero

\* The float64 sum of the terms of height(), added from left to right, with
\* `labelTerm` for a labelled axis.
HeightSum(labelTerm) ==
    FAdd(FAdd(FAdd(IF axis.Label # <<>> THEN labelTerm ELSE Zero, HeightTickTerm),
              FDiv(axis.AxisStyle.Width, Num(2))),
         axis.Padding)

\* Claim C5 as stated: height() is the ascent of the label font in inches (if
\* and only if Label is non-empty) + the tick term + Width/2 + Padding.
C5_Original_HeightWithAscent ==
    op = "height" => FEq(ret, HeightSum(FDiv(LabelExtents.Ascent, PtInchF)))

\* Claim C5, amended: height() is the Height of the label font in inches (if
\* and only if Label is non-empty) + (Length + labelHeight(marks)) (if and only
\* if there is a tick) + Width/2 + Padding, added in float64 from left to
\* right; with no label and no tick it is Width/2 + Padding.
C5_HeightWithFontHeight ==
    op = "height" =>
        /\ FEq(ret, HeightSum(FDiv(LabelExtents.Height, PtInchF)))
        /\ (axis.Label = <<>> /\ Len(AxisMarks) = 0) =>
               FEq(ret, FAdd(FDiv(axis.AxisStyle.Width, Num(2)), axis.Padding))

\* C5's case: height() of a labelled axis whose font has a descent and whose
\* generator returns major ticks.
C5_Witness ==
    /\ op = "height"
    /\ axis.Label # <<>>
    /\ ~FEq(LabelExtents.Height, LabelExtents.Ascent)
    /\ FGt(labelHeight(axis.Ticks, AxisMarks), Zero)
    /\ FEq(ret, HeightSum(FDiv(LabelExtents.Height, PtInchF)))
    /\ ~FEq(ret, HeightSum(FDiv(LabelExtents.Ascent, PtInchF)))

\* Claim C6: width() is the height of the label font in inches (if and only
\* if Label is non-empty) + (labelWidth(marks) + the width of a space) (if and
\* only if there is a tick and labelWidth(marks) > 0) + Length (if and only if
\* there is a tick) + Width/2 + Padding (up to float64 rounding: at most 2^-46
\* times width()).
C6_WidthWithFontHeight ==
    op = "width" =>
        Close(ret,
              FAdd(FAdd(FAdd(FAdd(
                  IF axis.Label # <<>> THEN FDiv(LabelExtents.Height, PtInchF) ELSE Zero,
                  IF Len(AxisMarks) > 0 /\ FGt(labelWidth(axis.Ticks, AxisMarks), Zero)
                  THEN FAdd(labelWidth(axis.Ticks, AxisMarks),
                            FDiv(FontWidth(axis.Ticks.LabelStyle.Font, <<" ">>), PtInchF))
                  ELSE Zero),
                  IF Len(AxisMarks) > 0 THEN axis.Ticks.Length ELSE Zero),
                  FDiv(axis.AxisStyle.Width, Num(2))),
                  axis.Padding),
              46, FAbs(ret))

\* Claim C8: a constructor whose font fails to load returns to its caller,
\* with a value or an error; the process is not terminated.
C8_ConstructorsReturn == phase # "panicked"

\* The major ticks among the ticks of the axis, in order.
AxisMajors == SelectSeq(AxisMarks, LAMBDA t : ~minor(t))

\* The texts of a drawing pass that follow the text of the axis label.
TickTexts ==
    IF axis.Label # <<>> THEN Tail(canvas.texts) ELSE canvas.texts

\* The length in pixels of a major mark.
MarkLen == FMul(axis.Ticks.Length, DaDPI(arg.da))

\* The length the mark of the tick t is to have.
MarkLenOf(t) == IF t.Label = <<>> THEN FDiv(MarkLen, Num(2)) ELSE MarkLen

\* The mark from near to far is `long` long: bit for bit, or up to the
\* rounding of its two ends (at most 2^-46 times the larger of their
\* magnitudes and the length).
HasLength(near, far, long, exactly) ==
    IF exactly THEN FEq(FSub(far, near), long)
    ELSE Close(FSub(far, near), long, 46, FMax(FMax(FAbs(near), FAbs(far)), FAbs(long)))

\* One drawHoriz or drawVert pass: one mark line per tick, major or minor, at
\* the transformed position of the tick; the far end of every mark is on the
\* axis line, which is drawn last; a major mark is Length*DPI long and a
\* minor mark Length*DPI/2; and a text is drawn for a tick if and only if its
\* Label is non-empty (one text per major tick, in order, at its position).
OneMarkPerTick(exactly) ==
    op \in {"drawHoriz", "drawVert"} =>
        /\ Len(canvas.lines) = Len(AxisMarks) + 1
        /\ \A i \in 1..Len(AxisMarks) :
              LET t == AxisMarks[i]
                  l == canvas.lines[i]
              IN  IF op = "drawHoriz"
                  THEN /\ l.p.X = X(axis, arg.da, t.Value)
                       /\ l.q.X = l.p.X
                       /\ l.q.Y = AxisLine.p.Y
                       /\ HasLength(l.p.Y, l.q.Y, MarkLenOf(t), exactly)
                  ELSE /\ l.p.Y = Y(axis, arg.da, t.Value)
                       /\ l.q.Y = l.p.Y
                       /\ l.q.X = AxisLine.p.X
                       /\ HasLength(l.p.X, l.q.X, MarkLenOf(t), exactly)
        /\ Len(TickTexts) = Len(AxisMajors)
        /\ \A i \in 1..Len(AxisMajors) :
              IF op = "drawHoriz"
              THEN /\ TickTexts[i].s = AxisMajors[i].Label
                   /\ TickTexts[i].x = X(axis, arg.da, AxisMajors[i].Value)
              ELSE /\ TickTexts[i].s = Append(AxisMajors[i].Label, " ")
                   /\ TickTexts[i].y = Y(axis, arg.da, AxisMajors[i].Value)

\* The cursor (y of drawHoriz, x of drawVert) when the marks of the last pass
\* were drawn: the start of the area, advanced by the axis label and by the
\* space of the tick labels.
MarkCursor ==
    IF op = "drawHoriz"
    THEN FAdd(IF axis.Label # <<>>
              THEN FAdd(FAdd(arg.da.Min.Y,
                             FNeg(FMul(FDiv(LabelExtents.Descent, PtInchF), DaDPI(arg.da)))),
                        FMul(FDiv(LabelExtents.Ascent, PtInchF), DaDPI(arg.da)))
              ELSE arg.da.Min.Y,
              FMul(labelHeight(axis.Ticks, AxisMarks), DaDPI(arg.da)))
    ELSE LET x == IF axis.Label # <<>>
                  THEN FAdd(FAdd(arg.da.Min.X,
                                 FMul(FDiv(LabelExtents.Ascent, PtInchF), DaDPI(arg.da))),
                            FMul(FDiv(FNeg(LabelExtents.Descent), PtInchF), DaDPI(arg.da)))
                  ELSE arg.da.Min.X
             lwidth == labelWidth(axis.Ticks, AxisMarks)
         IN  IF FGt(lwidth, Zero)
             THEN FAdd(FAdd(x, FMul(lwidth, DaDPI(arg.da))),
                       FMul(FDiv(FontWidth(axis.Ticks.LabelStyle.Font, <<" ">>), PtInchF),
                            DaDPI(arg.da)))
             ELSE x

\* The mark of every tick runs from the cursor + its offset (0 for a major
\* tick, Length*DPI/2 for a minor one) to the cursor + Length*DPI, each a
\* float64 sum.
MarkEnds ==
    op \in {"drawHoriz", "drawVert"} =>
        \A i \in 1..Len(AxisMarks) :
           LET l == canvas.lines[i]
               near == IF op = "drawHoriz" THEN l.p.Y ELSE l.p.X
               far == IF op = "drawHoriz" THEN l.q.Y ELSE l.q.X
           IN  /\ near = FAdd(MarkCursor,
                              IF AxisMarks[i].Label = <<>> THEN FDiv(MarkLen, Num(2)) ELSE Zero)
               /\ far = FAdd(MarkCursor, MarkLen)

\* Claim C10 as stated: one mark per tick at its transformed position, ending
\* on the axis line, a major mark exactly Length*DPI long and a minor mark
\* exactly Length*DPI/2, and a text for a tick if and only if it has a Label.
C10_Original_OneMarkPerTick == OneMarkPerTick(TRUE)

\* Claim C10, amended: one mark per tick at its transformed position, ending
\* on the axis line; the ends of a mark are the float64 sums cursor +
\* lengthOffset (0 for a major tick, Length*DPI/2 for a minor one) and
\* cursor + Length*DPI, so that a major mark is Length*DPI long and a minor
\* mark Length*DPI/2 up to the float64 rounding of the two ends; and a text
\* for a tick if and only if it has a Label.
C10_OneMarkPerTick == OneMarkPerTick(FALSE) /\ MarkEnds

\* C10's case: a horizontal pass over a major and a minor tick of a ranged
\* axis has drawn a text for the major tick only and two marks ending on the
\* axis line, the major one from the cursor and the minor one from the cursor
\* + Length*DPI/2, of the full and of half the length up to rounding, one of
\* them not bit for bit.
C10_Witness ==
    /\ op = "drawHoriz"
    /\ IsFinite(axis.Min)
    /\ Len(AxisMajors) = 1
    /\ Len(TickTexts) = 1
    /\ FGt(MarkLen, Zero)
    /\ \E i, j \in 1..Len(AxisMarks) :
          /\ ~minor(AxisMarks[i])
          /\ minor(AxisMarks[j])
          /\ canvas.lines[i].q.Y = AxisLine.p.Y
          /\ canvas.lines[j].q.Y = AxisLine.p.Y
          /\ FEq(canvas.lines[i].p.Y, MarkCursor)
          /\ canvas.lines[j].p.Y = FAdd(MarkCursor, FDiv(MarkLen, Num(2)))
          /\ HasLength(canvas.lines[i].p.Y, canvas.lines[i].q.Y, MarkLen, FALSE)
          /\ HasLength(canvas.lines[j].p.Y, canvas.lines[j].q.Y, FDiv(MarkLen, Num(2)), FALSE)
          /\ \/ ~HasLength(canvas.lines[i].p.Y, canvas.lines[i].q.Y, MarkLen, TRUE)
             \/ ~HasLength(canvas.lines[j].p.Y, canvas.lines[j].q.Y, FDiv(MarkLen, Num(2)), TRUE)

(***************************************************************************)
(* Properties of the transform (specification SpecXY).                     *)
(***************************************************************************)
\* The ends of the drawing area along the axis of the last call of X or Y.
AreaLo == IF op = "X" THEN arg.da.Min.X ELSE arg.da.Min.Y

AreaHi == IF op = "X" THEN DaMax(arg.da).X ELSE DaMax(arg.da).Y

\* X or Y, whichever was called last, of the axis ax at v.
Transform(ax, v) == IF op = "X" THEN X(ax, arg.da, v) ELSE Y(ax, arg.da, v)

\* The result is that of any axis with the current Min and Max, whatever its
\* other fields and whatever range it had before.
OnlyOfRange == ret = Transform([NoAxis EXCEPT !.Min = axis.Min, !.Max = axis.Max], arg.v)

\* Non-decreasing in the argument, when the area ends above where it starts.
Monotonic ==
    FGt(AreaHi, AreaLo) =>
        \A v \in XVals :
           /\ FLe(arg.v, v) => FLe(ret, Transform(axis, v))
           /\ FLe(v, arg.v) => FLe(Transform(axis, v), ret)

\* X or Y has been called on an axis with finite Min < Max.
TransformCalled ==
    /\ op \in {"X", "Y"}
    /\ IsFinite(axis.Min)
    /\ IsFinite(axis.Max)
    /\ FLt(axis.Min, axis.Max)

QuarterPoints ==
    LET d == FSub(arg.max, arg.min)
    IN  << arg.min,
           FAdd(arg.min, FDiv(d, Num(4))),
           FAdd(arg.min, FDiv(d, Num(2))),
           FAdd(arg.min, FDiv(FMul(Num(3), d), Num(4))),
           arg.max >>

\* Claim C4: for min < max the default generator returns 5 ticks, in
\* increasing order, at min, min+(max-min)/4, min+(max-min)/2,
\* min+3(max-min)/4 and max; the 1st, 3rd and 5th are major, with a label that
\* is the formatted value; the 2nd and 4th are minor; every value is within
\* [min, max].  The values are the float64 results of these expressions and
\* the order is stated as non-decreasing, so that rounding alone (two ticks
\* of a range of adjacent float64 values are equal) does not violate it.
C4_DefaultMarks ==
    (/\ op = "Marks"
     /\ axis.Ticks.TickMarker = DefaultTicks
     /\ FLt(arg.min, arg.max))
        => /\ Len(retMarks) = 5
           /\ \A i \in 1..Len(retMarks) :
                 LET t == retMarks[i]
                 IN  /\ FEq(t.Value, QuarterPoints[i])
                     /\ FLe(arg.min, t.Value)
                     /\ FLe(t.Value, arg.max)
                     /\ i < Len(retMarks) => FLe(t.Value, retMarks[i + 1].Value)
                     /\ IF i \in {1, 3, 5}
                        THEN /\ ~minor(t)
                             /\ t.Label = FormatG(t.Value)
                        ELSE minor(t)

\* Claim C7: a constant generator built from the ticks S returns exactly S
\* from Marks(min, max), for every (min, max), on every call.
C7_ConstantMarks ==
    (op = "Marks" /\ axis.Ticks.TickMarker.kind = "ConstantTicks")
        => retMarks = axis.Ticks.TickMarker.tks

\* C7's case: a constant generator has returned a tick whose value is outside
\* the range it was called with.
C7_Witness ==
    /\ op = "Marks"
    /\ axis.Ticks.TickMarker.kind = "ConstantTicks"
    /\ FLt(arg.min, arg.max)
    /\ Len(retMarks) = MaxTicks
    /\ \E i \in 1..Len(retMarks) : FLt(arg.max, retMarks[i].Value)
    /\ retMarks = axis.Ticks.TickMarker.tks

\* The major ticks of a sequence, in order.
Majors(ticks) == SelectSeq(ticks, LAMBDA t : ~minor(t))

\* The widths in inches of the labels of the major ticks of a sequence.
MajorWidths(ticks) ==
    { FDiv(FontWidth(axis.Ticks.LabelStyle.Font, ticks[i].Label), PtInchF) :
        i \in {j \in 1..Len(ticks) : ticks[j].Label # <<>>} }

\* Claim C9: labelWidth is the largest width of the label of a major tick and
\* labelHeight the ascent of the tick font when there is a major tick; both
\* are 0 when there is none; and neither changes when minor ticks are added,
\* removed or moved: sequences with the same major ticks in the same order
\* measure the same.
C9_LabelSpace ==
    /\ op = "labelWidth" =>
          /\ IF MajorWidths(arg.ticks) = {} THEN ret = Zero
             ELSE /\ ret \in MajorWidths(arg.ticks)
                  /\ \A w \in MajorWidths(arg.ticks) : FLe(w, ret)
          /\ \A other \in TickSeqs :
                Majors(other) = Majors(arg.ticks) => labelWidth(axis.Ticks, other) = ret
    /\ op = "labelHeight" =>
          /\ ret = IF Majors(arg.ticks) = <<>> THEN Zero
                   ELSE FDiv(axis.Ticks.LabelStyle.Font.Ascent, PtInchF)
          /\ \A other \in TickSeqs :
                Majors(other) = Majors(arg.ticks) => labelHeight(axis.Ticks, other) = ret

\* C9's case: labelWidth of a sequence whose first major label is wider than
\* its second has returned the width of the first.
C9_Witness ==
    /\ op = "labelWidth"
    /\ Len(Majors(arg.ticks)) = 2
    /\ Len(arg.ticks[1].Label) > Len(arg.ticks[Len(arg.ticks)].Label)
    /\ FGt(ret, Zero)
    /\ ret = FDiv(FontWidth(axis.Ticks.LabelStyle.Font, arg.ticks[1].Label), PtInchF)

====

